---- MODULE Spec2Model ----
(***************************************************************************)
(* A model of the video grid of src/room/VideoPreview.tsx: the pure tile   *)
(* geometry (getTilePositions and the functions it calls), the ordering    *)
(* function reorderTiles, and the VideoGrid component as a state machine   *)
(* whose actions are its effect (reconciliation), its delayed-removal      *)
(* timer callback, and its tap and drag handlers.                          *)
(*                                                                         *)
(* Numbers.  The code computes with IEEE doubles.  The model computes with *)
(* exact rationals <<n, d>> (d > 0, lowest terms) extended by the three    *)
(* special doubles the code can produce: NaN = <<0,0>>, +Infinity =        *)
(* <<1,0>>, -Infinity = <<-1,0>>.  Comparisons with NaN are false and      *)
(* 0/0, Inf-Inf and 0*Inf are NaN, as in the code.  Binary rounding error  *)
(* and the sign of zero are not modelled.                                  *)
(***************************************************************************)
EXTENDS Integers, Sequences, FiniteSets, TLC

-----------------------------------------------------------------------------
(* Numbers *)

Abs(i) == IF i < 0 THEN -i ELSE i

Sign(i) == IF i < 0 THEN -1 ELSE IF i > 0 THEN 1 ELSE 0

RECURSIVE GCD(_, _)
GCD(a, b) == IF b = 0 THEN a ELSE GCD(b, a % b)

\* The number n/d in canonical form; d = 0 gives NaN or an infinity.
Norm(n, d) ==
  IF d = 0 THEN <<Sign(n), 0>>
  ELSE LET g == GCD(Abs(n), Abs(d))
       IN  <<Sign(d) * Sign(n) * (Abs(n) \div g), Abs(d) \div g>>

NaN == <<0, 0>>
PosInf == <<1, 0>>
NegInf == <<-1, 0>>
N(i) == <<i, 1>>

IsNaN(a) == a = NaN
IsFinite(a) == a[2] # 0

Add(a, b) ==
  IF IsNaN(a) \/ IsNaN(b) THEN NaN
  ELSE IF ~IsFinite(a) /\ ~IsFinite(b) THEN (IF a = b THEN a ELSE NaN)
  ELSE IF ~IsFinite(a) THEN a
  ELSE IF ~IsFinite(b) THEN b
  ELSE Norm(a[1] * b[2] + b[1] * a[2], a[2] * b[2])

Neg(a) == <<-a[1], a[2]>>

Sub(a, b) == Add(a, Neg(b))

Mul(a, b) == Norm(a[1] * b[1], a[2] * b[2])

Recip(a) ==
  IF a[1] = 0 THEN (IF a[2] = 0 THEN NaN ELSE PosInf)
  ELSE IF a[2] = 0 THEN N(0)
  ELSE IF a[1] > 0 THEN <<a[2], a[1]>>
  ELSE <<-a[2], -a[1]>>

Div(a, b) == Mul(a, Recip(b))

\* a < b on doubles: false when either side is NaN.
Lt(a, b) ==
  IF IsNaN(a) \/ IsNaN(b) THEN FALSE
  ELSE IF ~IsFinite(a) /\ ~IsFinite(b) THEN a[1] < b[1]
  ELSE IF ~IsFinite(a) THEN a[1] < 0
  ELSE IF ~IsFinite(b) THEN b[1] > 0
  ELSE a[1] * b[2] < b[1] * a[2]

Gt(a, b) == Lt(b, a)

Le(a, b) == ~IsNaN(a) /\ ~IsNaN(b) /\ ~Lt(b, a)

\* Math.round: floor(x + 1/2); NaN and the infinities are returned as they are.
Round(a) ==
  IF ~IsFinite(a) THEN a ELSE N((2 * a[1] + a[2]) \div (2 * a[2]))

\* Math.min / Math.max: NaN if either argument is NaN.
MathMin(a, b) == IF IsNaN(a) \/ IsNaN(b) THEN NaN ELSE IF Lt(b, a) THEN b ELSE a

MathMax(a, b) == IF IsNaN(a) \/ IsNaN(b) THEN NaN ELSE IF Lt(a, b) THEN b ELSE a

\* Math.ceil(a / b) for integers a >= 0, b > 0.
CeilDiv(a, b) == (a + b - 1) \div b

\* JavaScript truthiness of a number: 0 and NaN are falsy.
Truthy(a) == ~IsNaN(a) /\ a # N(0)

-----------------------------------------------------------------------------
(* Geometry *)

GAP == 8

Rect(x, y, w, h, z) == [x |-> x, y |-> y, width |-> w, height |-> h, zIndex |-> z]

isInside(p, targetTile) ==
  LET left == targetTile.x
      top == targetTile.y
      bottom == Add(targetTile.y, targetTile.height)
      right == Add(targetTile.x, targetTile.width)
  IN  ~(Lt(p[1], left) \/ Gt(p[1], right) \/ Lt(p[2], top) \/ Gt(p[2], bottom))

getPipGap(gridAspectRatio) == IF Lt(gridAspectRatio, N(1)) THEN 12 ELSE 24

isMobileBreakpoint(gridWidth, gridHeight) == Lt(Div(gridWidth, gridHeight), N(1))

getGridLayout(tileCount, presenterTileCount, gridWidth, gridHeight) ==
  IF presenterTileCount = 0
  THEN [layoutDirection |-> "horizontal", itemGridRatio |-> N(1)]
  ELSE IF isMobileBreakpoint(gridWidth, gridHeight)
  THEN [layoutDirection |-> "vertical", itemGridRatio |-> <<1, 3>>]
  ELSE [layoutDirection |-> "horizontal", itemGridRatio |-> <<1, 3>>]

Shape(c, r, a) == [columnCount |-> c, rowCount |-> r, tileAspectRatio |-> a]

\* A column count of 0 (tileCount = 0 in the last branch) makes the code's
\* Math.ceil(tileCount / columnCount) NaN; the row count is not used then.
getSubGridLayout(tileCount, gridWidth, gridHeight) ==
  LET gridAspectRatio == Div(gridWidth, gridHeight)
      wide == <<16, 9>>
  IN  IF Lt(gridAspectRatio, <<3, 4>>) THEN
        IF tileCount = 1 THEN Shape(1, 1, N(0))
        ELSE IF tileCount <= 4 THEN Shape(1, tileCount, wide)
        ELSE IF tileCount <= 12 THEN Shape(2, CeilDiv(tileCount, 2), N(0))
        ELSE Shape(3, CeilDiv(tileCount, 3), N(1))
      ELSE IF Lt(gridAspectRatio, N(1)) THEN
        IF tileCount = 1 THEN Shape(1, 1, N(0))
        ELSE IF tileCount <= 4 THEN Shape(1, tileCount, wide)
        ELSE IF tileCount <= 12 THEN Shape(2, CeilDiv(tileCount, 2), wide)
        ELSE Shape(3, CeilDiv(tileCount, 3), N(1))
      ELSE IF Lt(gridAspectRatio, <<17, 9>>) THEN
        IF tileCount = 1 THEN Shape(1, 1, wide)
        ELSE IF tileCount = 2 THEN Shape(2, 1, wide)
        ELSE IF tileCount <= 4 THEN Shape(2, 2, wide)
        ELSE IF tileCount <= 6 THEN Shape(3, 2, wide)
        ELSE IF tileCount <= 8 THEN Shape(4, 2, N(1))
        ELSE IF tileCount <= 12 THEN Shape(4, 3, N(1))
        ELSE Shape(4, 4, wide)
      ELSE IF Le(gridAspectRatio, <<32, 9>>) THEN
        IF tileCount = 1 THEN Shape(1, 1, wide)
        ELSE IF tileCount = 2 THEN Shape(2, 1, wide)
        ELSE IF tileCount <= 4 THEN Shape(2, 2, wide)
        ELSE IF tileCount <= 6 THEN Shape(3, 2, wide)
        ELSE IF tileCount <= 8 THEN Shape(4, 2, wide)
        ELSE IF tileCount <= 12 THEN Shape(4, 3, wide)
        ELSE Shape(4, 4, wide)
      ELSE
        IF tileCount <= 6 THEN Shape(tileCount, 1, wide)
        ELSE Shape(CeilDiv(tileCount, 2), 2, wide)

\* The loop of getSubGridPositions: one rectangle per tile, row by row.
SubGridTiles(tileCount, columnCount, rowCount, tileWidth, tileHeight) ==
  LET position(i) ==
        LET verticalIndex == i \div columnCount
            top == Add(N(verticalIndex * GAP), Mul(N(verticalIndex), tileHeight))
            rowItemCount ==
              IF verticalIndex + 1 = rowCount /\ tileCount % columnCount # 0
              THEN tileCount % columnCount
              ELSE columnCount
            horizontalIndex == i % columnCount
            subgridWidth ==
              Add(Mul(tileWidth, N(columnCount)), N(GAP * columnCount - 1))
            centeringPadding ==
              IF rowItemCount < columnCount
              THEN Round(Div(Sub(subgridWidth,
                                 Add(Mul(tileWidth, N(rowItemCount)),
                                     N(GAP * rowItemCount - 1))),
                             N(2)))
              ELSE N(0)
            left == Add(Add(centeringPadding, N(GAP * horizontalIndex)),
                        Mul(tileWidth, N(horizontalIndex)))
        IN  Rect(left, top, tileWidth, tileHeight, 0)
  IN  [j \in 1..tileCount |-> position(j - 1)]

\* The tile size getSubGridPositions fits into a box: <<tileWidth, tileHeight>>.
TileSize(tileAspectRatio, boxWidth, boxHeight) ==
  IF Truthy(tileAspectRatio)
  THEN IF Gt(Div(boxWidth, boxHeight), tileAspectRatio)
       THEN <<Mul(boxHeight, tileAspectRatio), boxHeight>>
       ELSE <<boxWidth, Div(boxWidth, tileAspectRatio)>>
  ELSE <<boxWidth, boxHeight>>

\* getSubGridPositions once the tile size is known.
SubGridOfSize(tileCount, columnCount, rowCount, size) ==
  SubGridTiles(tileCount, columnCount, rowCount, size[1], size[2])

getSubGridPositions(tileCount, columnCount, rowCount, tileAspectRatio, gridWidth, gridHeight) ==
  \* tileCount = 0 returns early; for a negative count the loop body never runs.
  IF tileCount <= 0 THEN <<>>
  ELSE SubGridOfSize(tileCount, columnCount, rowCount,
         TileSize(tileAspectRatio,
                  Round(Div(Sub(gridWidth, N(GAP * (columnCount + 1))), N(columnCount))),
                  Round(Div(Sub(gridHeight, N(GAP * (rowCount + 1))), N(rowCount)))))

\* getSubGridPositions with the shape getSubGridLayout returned.
SubGridOfShape(tileCount, shape, gridWidth, gridHeight) ==
  getSubGridPositions(tileCount, shape.columnCount, shape.rowCount,
                      shape.tileAspectRatio, gridWidth, gridHeight)

\* getSubGridLayout followed by getSubGridPositions, as
\* getFreedomLayoutTilePositions calls them for each of its two grids.
SubGrid(tileCount, gridWidth, gridHeight) ==
  SubGridOfShape(tileCount, getSubGridLayout(tileCount, gridWidth, gridHeight),
                 gridWidth, gridHeight)

RECURSIVE BoundsFrom(_, _, _)
BoundsFrom(positions, i, acc) ==
  IF i > Len(positions) THEN acc
  ELSE BoundsFrom(positions, i + 1,
         [left |-> IF Lt(positions[i].x, acc.left) THEN positions[i].x ELSE acc.left,
          top |-> IF Lt(positions[i].y, acc.top) THEN positions[i].y ELSE acc.top,
          right |-> IF Gt(Add(positions[i].x, positions[i].width), acc.right)
                    THEN Add(positions[i].x, positions[i].width) ELSE acc.right,
          bottom |-> IF Gt(Add(positions[i].y, positions[i].height), acc.bottom)
                     THEN Add(positions[i].y, positions[i].height) ELSE acc.bottom])

\* The object getSubGridBoundingBox returns for the edges its loop found.
BoundingBox(box) ==
  [left |-> box.left, right |-> box.right, top |-> box.top, bottom |-> box.bottom,
   width |-> Sub(box.right, box.left), height |-> Sub(box.bottom, box.top)]

getSubGridBoundingBox(positions) ==
  BoundingBox(
    IF Len(positions) = 0
    THEN [left |-> N(0), top |-> N(0), right |-> N(0), bottom |-> N(0)]
    ELSE BoundsFrom(positions, 2,
           [left |-> positions[1].x,
            top |-> positions[1].y,
            right |-> Add(positions[1].x, positions[1].width),
            bottom |-> Add(positions[1].y, positions[1].height)]))

applyTileOffsets(positions, leftOffset, topOffset) ==
  [i \in 1..Len(positions) |->
     [positions[i] EXCEPT !.x = Add(@, leftOffset), !.y = Add(@, topOffset)]]

\* centerTiles once the bounding box of the positions is known.
CenterIn(positions, bounds, gridWidth, gridHeight, offsetLeft, offsetTop) ==
  applyTileOffsets(positions,
                   Add(Round(Div(Sub(gridWidth, bounds.width), N(2))), offsetLeft),
                   Add(Round(Div(Sub(gridHeight, bounds.height), N(2))), offsetTop))

centerTiles(positions, gridWidth, gridHeight, offsetLeft, offsetTop) ==
  CenterIn(positions, getSubGridBoundingBox(positions), gridWidth, gridHeight,
           offsetLeft, offsetTop)

\* The end of getFreedomLayoutTilePositions: both grids are centred, the
\* presenters first.
FreedomCentered(gridWidth, gridHeight, vertical, itemGridPositions, presenterGridWidth, presenterGridHeight, presenterGridPositions) ==
  centerTiles(presenterGridPositions, presenterGridWidth, presenterGridHeight, N(0), N(0))
  \o centerTiles(itemGridPositions,
                 IF vertical THEN gridWidth ELSE Sub(gridWidth, presenterGridWidth),
                 IF vertical THEN Sub(gridHeight, presenterGridHeight) ELSE gridHeight,
                 IF vertical THEN N(0) ELSE presenterGridWidth,
                 IF vertical THEN presenterGridHeight ELSE N(0))

\* getFreedomLayoutTilePositions once the size of the presenter grid is known.
FreedomPresenters(presenterTileCount, gridWidth, gridHeight, vertical, itemGridPositions, presenterGridWidth, presenterGridHeight) ==
  FreedomCentered(gridWidth, gridHeight, vertical, itemGridPositions,
                  presenterGridWidth, presenterGridHeight,
                  SubGrid(presenterTileCount, presenterGridWidth, presenterGridHeight))

\* What the item grid takes of the grid's extent: its bounding box and the gap.
ItemGridExtent(itemTileCount, extent) ==
  Add(extent, IF itemTileCount # 0 THEN N(GAP * 2) ELSE N(0))

\* getFreedomLayoutTilePositions once the item grid is laid out.
FreedomItems(presenterTileCount, itemTileCount, gridWidth, gridHeight, vertical, itemGridPositions) ==
  FreedomPresenters(presenterTileCount, gridWidth, gridHeight, vertical, itemGridPositions,
    IF presenterTileCount = 0 THEN N(0)
    ELSE IF vertical THEN gridWidth
    ELSE Sub(gridWidth,
             ItemGridExtent(itemTileCount, getSubGridBoundingBox(itemGridPositions).width)),
    IF presenterTileCount = 0 THEN N(0)
    ELSE IF vertical
    THEN Sub(gridHeight,
             ItemGridExtent(itemTileCount, getSubGridBoundingBox(itemGridPositions).height))
    ELSE gridHeight)

\* getFreedomLayoutTilePositions once getGridLayout has returned.
FreedomGrid(tileCount, presenterTileCount, gridWidth, gridHeight, vertical, itemGridRatio) ==
  FreedomItems(presenterTileCount, tileCount - presenterTileCount, gridWidth, gridHeight,
               vertical,
               SubGrid(tileCount - presenterTileCount,
                       IF vertical THEN gridWidth ELSE Round(Mul(gridWidth, itemGridRatio)),
                       IF vertical THEN Round(Mul(gridHeight, itemGridRatio)) ELSE gridHeight))

\* getFreedomLayoutTilePositions with the object getGridLayout returned.
FreedomWith(tileCount, presenterTileCount, gridWidth, gridHeight, grid) ==
  FreedomGrid(tileCount, presenterTileCount, gridWidth, gridHeight,
              grid.layoutDirection = "vertical", grid.itemGridRatio)

\* A variant of getFreedomLayoutTilePositions that returns the item grid only.
getFreedomLayoutItemsOnly(tileCount, presenterTileCount, gridWidth, gridHeight) ==
  IF tileCount = presenterTileCount THEN <<>>
  ELSE FreedomWith(tileCount - presenterTileCount, 0, gridWidth, gridHeight,
                   getGridLayout(tileCount, presenterTileCount, gridWidth, gridHeight))

getFreedomLayoutTilePositions(tileCount, presenterTileCount, gridWidth, gridHeight) ==
  IF tileCount = 0 THEN <<>>
  ELSE FreedomWith(tileCount, presenterTileCount, gridWidth, gridHeight,
                   getGridLayout(tileCount, presenterTileCount, gridWidth, gridHeight))

PipWidth == 230
PipHeight == 155
PipWidthPortrait == 114
PipHeightPortrait == 163

\* The PiP rectangle at ratio <<pipX, pipY>> of the room the remote tile leaves.
PipRect(remotePosition, pipWidth, pipHeight, pipGap, pipX, pipY) ==
  LET pipMinX == Add(remotePosition.x, pipGap)
      pipMinY == Add(remotePosition.y, pipGap)
      pipMaxX == Sub(Sub(Add(remotePosition.x, remotePosition.width), pipWidth), pipGap)
      pipMaxY == Sub(Sub(Add(remotePosition.y, remotePosition.height), pipHeight), pipGap)
  IN  Rect(Add(pipMinX, Mul(pipX, Sub(pipMaxX, pipMinX))),
           Add(pipMinY, Mul(pipY, Sub(pipMaxY, pipMinY))),
           pipWidth, pipHeight, 1)

\* getOneOnOneLayoutTilePositions once the remote tile is laid out.
OneOnOneAround(remotePosition, portrait, pipGap, pipX, pipY) ==
  << PipRect(remotePosition,
             IF portrait THEN N(PipWidthPortrait) ELSE N(PipWidth),
             IF portrait THEN N(PipHeightPortrait) ELSE N(PipHeight),
             pipGap, pipX, pipY),
     remotePosition >>

getOneOnOneLayoutTilePositions(gridWidth, gridHeight, pipX, pipY) ==
  OneOnOneAround(getFreedomLayoutTilePositions(1, 0, gridWidth, gridHeight)[1],
                 Lt(Div(gridWidth, gridHeight), N(1)),
                 N(getPipGap(Div(gridWidth, gridHeight))),
                 pipX, pipY)

\* A variant of SpectatorTileHeight for square spectator tiles.
SpectatorTileHeightSquare(spectatorTileWidth) == spectatorTileWidth

\* spectatorTileHeight of the horizontal spotlight layout.
SpectatorTileHeight(spectatorTileWidth) == Mul(spectatorTileWidth, <<9, 16>>)

getSpotlightLayoutTilePositions(tileCount, gridWidth, gridHeight) ==
  LET gridAspectRatio == Div(gridWidth, gridHeight)
      inner(extent) == Sub(extent, N(GAP * 3))
  IN  IF Lt(gridAspectRatio, N(1)) THEN
        LET spotlightTileHeight ==
              IF tileCount > 1 THEN Mul(inner(gridHeight), <<4, 5>>)
              ELSE Sub(gridHeight, N(GAP * 2))
            spectatorTileSize ==
              IF tileCount > 1 THEN Sub(inner(gridHeight), spotlightTileHeight) ELSE N(0)
        IN  [j \in 1..tileCount |->
               IF j = 1
               THEN Rect(N(GAP), N(GAP), Sub(gridWidth, N(GAP * 2)), spotlightTileHeight, 0)
               ELSE Rect(Add(Mul(Add(N(GAP), spectatorTileSize), N(j - 2)), N(GAP)),
                         Add(spotlightTileHeight, N(GAP * 2)),
                         spectatorTileSize, spectatorTileSize, 0)]
      ELSE
        LET spotlightTileWidth ==
              IF tileCount > 1 THEN Div(Mul(inner(gridWidth), N(4)), N(5))
              ELSE Sub(gridWidth, N(GAP * 2))
            spectatorTileWidth ==
              IF tileCount > 1 THEN Sub(inner(gridWidth), spotlightTileWidth) ELSE N(0)
            spectatorTileHeight == SpectatorTileHeight(spectatorTileWidth)
        IN  [j \in 1..tileCount |->
               IF j = 1
               THEN Rect(N(GAP), N(GAP), spotlightTileWidth, Sub(gridHeight, N(GAP * 2)), 0)
               ELSE Rect(Add(N(GAP * 2), spotlightTileWidth),
                         Add(Mul(Add(N(GAP), spectatorTileHeight), N(j - 2)), N(GAP)),
                         spectatorTileWidth, spectatorTileHeight, 0)]

\* pipX, pipY and mode are the code's pipXRatio, pipYRatio and layout.
getTilePositions(tileCount, presenterTileCount, gridWidth, gridHeight, pipX, pipY, mode) ==
  IF mode = "freedom" THEN
    IF tileCount = 2 /\ presenterTileCount = 0
    THEN getOneOnOneLayoutTilePositions(gridWidth, gridHeight, pipX, pipY)
    ELSE getFreedomLayoutTilePositions(tileCount, presenterTileCount, gridWidth, gridHeight)
  ELSE getSpotlightLayoutTilePositions(tileCount, gridWidth, gridHeight)

-----------------------------------------------------------------------------
(* Tiles *)

Keys == {"A", "B", "C"}

\* The local participant's item; every other item is remote.
LocalKey == "A"

Item(id, focused, presenter) ==
  [id |-> id, focused |-> focused, presenter |-> presenter, isLocal |-> id = LocalKey]

Tile(key, order, item, remove, focused, presenter) ==
  [key |-> key, order |-> order, item |-> item, remove |-> remove,
   focused |-> focused, presenter |-> presenter]

RECURSIVE Ascending(_)
Ascending(S) ==
  IF S = {} THEN <<>>
  ELSE LET m == CHOOSE x \in S : \A y \in S : x <= y
       IN  <<m>> \o Ascending(S \ {m})

\* Index of the first element that passes the test, 0 if none, given the
\* test's result for each element (Array.prototype.findIndex, 1-based).
FindIndex(hits) ==
  IF \E i \in DOMAIN hits : hits[i]
  THEN CHOOSE i \in DOMAIN hits : hits[i] /\ \A j \in 1..(i - 1) : ~hits[j]
  ELSE 0

\* orderedTiles[tile.order] = tile: a later tile with the same order overwrites
\* an earlier one, and forEach visits the filled slots in ascending index order.
OrderedTiles(ts) ==
  LET slot(o) == CHOOSE i \in DOMAIN ts :
                   ts[i].order = o /\ \A j \in DOMAIN ts : ts[j].order = o => j <= i
  IN  [n \in 1..Cardinality({ts[i].order : i \in DOMAIN ts}) |->
         slot(Ascending({ts[i].order : i \in DOMAIN ts})[n])]

\* A variant of reorderTiles that leaves the order values as they are.
reorderTilesKeep(ts) == ts

\* The end of reorderTiles: each tile of the list all (indices into ts) gets
\* its place in that list as its order.
Renumber(ts, all) ==
  [i \in DOMAIN ts |->
     IF \E n \in DOMAIN all : all[n] = i
     THEN [ts[i] EXCEPT !.order = (CHOOSE n \in DOMAIN all : all[n] = i) - 1]
     ELSE ts[i]]

\* A variant of Regroup that puts the presenter tiles before the focused ones.
RegroupPresentersFirst(ts, orderedTiles) ==
  Renumber(ts,
           SelectSeq(orderedTiles, LAMBDA i : ~ts[i].focused /\ ts[i].presenter)
           \o SelectSeq(orderedTiles, LAMBDA i : ts[i].focused)
           \o SelectSeq(orderedTiles, LAMBDA i : ~ts[i].focused /\ ~ts[i].presenter))

\* reorderTiles once orderedTiles is filled.
Regroup(ts, orderedTiles) ==
  Renumber(ts,
           SelectSeq(orderedTiles, LAMBDA i : ts[i].focused)
           \o SelectSeq(orderedTiles, LAMBDA i : ~ts[i].focused /\ ts[i].presenter)
           \o SelectSeq(orderedTiles, LAMBDA i : ~ts[i].focused /\ ~ts[i].presenter))

reorderTiles(ts) == Regroup(ts, OrderedTiles(ts))

PresenterTileCount(ts) == Cardinality({i \in DOMAIN ts : ts[i].focused})

TileKeys(ts) == {ts[i].key : i \in DOMAIN ts}

ItemIds(list) == {list[i].id : i \in DOMAIN list}

\* A variant of ExistingTile that keeps the focused flag across a change of layout.
ExistingTileKeepFocus(tile, items, layout, lastLayout) ==
  LET found == FindIndex([n \in DOMAIN items |-> items[n].id = tile.key])
      remove == found = 0
      item == IF remove THEN tile.item ELSE items[found]
      focused == IF layout = "spotlight" THEN item.focused ELSE tile.focused
      presenter == IF layout = "spotlight" THEN item.presenter ELSE FALSE
  IN  Tile(item.id, tile.order, item, remove, focused, presenter)

\* First loop of the reconciliation effect: one new tile per existing tile.
ExistingTile(tile, items, layout, lastLayout) ==
  LET found == FindIndex([n \in DOMAIN items |-> items[n].id = tile.key])
      remove == found = 0
      item == IF remove THEN tile.item ELSE items[found]
      focused ==
        IF layout = "spotlight" THEN item.focused
        ELSE IF layout = lastLayout THEN tile.focused ELSE FALSE
      presenter == IF layout = "spotlight" THEN item.presenter ELSE FALSE
  IN  Tile(item.id, tile.order, item, remove, focused, presenter)

\* A variant of AddItem that adds a tile for every item, without the lookup.
AddItemAlways(newTiles, item, layout) ==
  Append(newTiles,
         Tile(item.id, Len(newTiles), item, FALSE,
              layout = "spotlight" /\ item.focused,
              layout = "spotlight" /\ item.presenter))

\* A variant of AddItem that gives an added tile the order 0.
AddItemFirst(newTiles, item, layout) ==
  LET existingTileIndex == FindIndex([n \in DOMAIN newTiles |-> newTiles[n].key = item.id])
      exists == existingTileIndex # 0
      newTile ==
        Tile(item.id,
             IF exists THEN newTiles[existingTileIndex].order ELSE 0,
             item, FALSE,
             layout = "spotlight" /\ item.focused,
             layout = "spotlight" /\ item.presenter)
  IN  IF exists /\ ~newTiles[existingTileIndex].remove THEN newTiles
      ELSE IF exists THEN [newTiles EXCEPT ![existingTileIndex] = newTile]
      ELSE Append(newTiles, newTile)

\* One iteration of the second loop: replace a tile pending removal or add a tile.
AddItem(newTiles, item, layout) ==
  LET existingTileIndex == FindIndex([n \in DOMAIN newTiles |-> newTiles[n].key = item.id])
      exists == existingTileIndex # 0
      newTile ==
        Tile(item.id,
             IF exists THEN newTiles[existingTileIndex].order ELSE Len(newTiles),
             item, FALSE,
             layout = "spotlight" /\ item.focused,
             layout = "spotlight" /\ item.presenter)
  IN  IF exists /\ ~newTiles[existingTileIndex].remove THEN newTiles
      ELSE IF exists THEN [newTiles EXCEPT ![existingTileIndex] = newTile]
      ELSE Append(newTiles, newTile)

RECURSIVE AddItems(_, _, _, _)
AddItems(newTiles, items, i, layout) ==
  IF i > Len(items) THEN newTiles
  ELSE AddItems(AddItem(newTiles, items[i], layout), items, i + 1, layout)

\* A variant of ReconcileTiles that drops a tile as soon as its key is absent.
ReconcileTilesEager(ts, items, layout, lastLayout) ==
  reorderTiles(
    AddItems(SelectSeq([i \in DOMAIN ts |-> ExistingTile(ts[i], items, layout, lastLayout)],
                       LAMBDA t : ~t.remove),
             items, 1, layout))

\* The tiles the effect's updater builds from the previous tiles.
ReconcileTiles(ts, items, layout, lastLayout) ==
  reorderTiles(
    AddItems([i \in DOMAIN ts |-> ExistingTile(ts[i], items, layout, lastLayout)],
             items, 1, layout))

removedTileKeys(ts, items) ==
  {ts[i].key : i \in {j \in DOMAIN ts : \A n \in DOMAIN items : items[n].id # ts[j].key}}

\* A variant of PurgeTiles that filters nothing out.
PurgeTilesNone(ts, removed) == reorderTiles(ts)

\* The tiles the removal timer's updater builds.
PurgeTiles(ts, removed) ==
  reorderTiles(SelectSeq(ts, LAMBDA t : t.key \notin removed))

-----------------------------------------------------------------------------
(* The VideoGrid component *)

\* Bounds of the model's inputs.
MaxItems == 3
MaxTimers == 1

Layouts == {"freedom", "spotlight"}

Bounds(w, h) == [left |-> N(0), top |-> N(0), width |-> N(w), height |-> N(h)]

\* The viewports the grid is measured at: not yet measured, a desktop window,
\* a small landscape window and a portrait phone.
Unmeasured == Bounds(0, 0)
Desktop == Bounds(1000, 600)
SmallWindow == Bounds(294, 200)
Phone == Bounds(600, 1000)
Viewports == {Unmeasured, Desktop, SmallWindow, Phone}

\* getTilePositions for the layouts that do not depend on the PiP ratios,
\* evaluated once for each argument the component can pass.
PositionsTable ==
  [c \in 0..Cardinality(Keys), p \in 0..Cardinality(Keys), b \in Viewports, lay \in Layouts |->
     IF lay = "freedom" /\ c = 2 /\ p = 0 THEN <<>>
     ELSE getTilePositions(c, p, b.width, b.height, N(1), N(1), lay)] @@ <<>>

\* A variant of TilePositionsFor that counts only the tiles not pending removal.
TilePositionsForLive(ts, bounds, pipX, pipY, lay) ==
  LET live == SelectSeq(ts, LAMBDA t : ~t.remove)
  IN  getTilePositions(Len(live), PresenterTileCount(live), bounds.width, bounds.height,
                       pipX, pipY, lay)

\* getTilePositions(Len(ts), number of focused tiles, ...) as the component calls it.
TilePositionsFor(ts, bounds, pipX, pipY, lay) ==
  LET c == Len(ts)
      p == PresenterTileCount(ts)
  IN  IF c <= Cardinality(Keys) /\ bounds \in Viewports /\ ~(lay = "freedom" /\ c = 2 /\ p = 0)
      THEN PositionsTable[<<c, p, bounds, lay>>]
      ELSE getTilePositions(c, p, bounds.width, bounds.height, pipX, pipY, lay)

\* The participants in the order the caller lists them.
Roster == <<"A", "B", "C">>

\* The items a caller can pass for a participant: the local participant, a
\* remote participant that may be the active speaker, and a presenting one.
ItemsOf(id) ==
  IF id = "B" THEN {Item("B", f, FALSE) : f \in BOOLEAN}
  ELSE IF id = "C" THEN {Item("C", FALSE, TRUE)}
  ELSE {Item(id, FALSE, FALSE)}

\* Item lists in roster order, without repeated ids.
RosterLists ==
  {l \in UNION {[1..n -> UNION {ItemsOf(k) : k \in Keys}] : n \in 0..MaxItems} :
     \A i, j \in DOMAIN l :
       i < j => \E a, b \in DOMAIN Roster : a < b /\ Roster[a] = l[i].id /\ Roster[b] = l[j].id}

\* The same lists, and those that repeat their first item at the end.
ItemLists ==
  RosterLists \cup {Append(l, l[1]) : l \in {m \in RosterLists : Len(m) \in 1..(MaxItems - 1)}}

VARIABLES
  items,            \* prop: the item list
  layout,           \* prop: the layout mode
  gridBounds,       \* useMeasure: the measured viewport
  tiles,            \* state: tileState.tiles
  tilePositions,    \* state: tileState.tilePositions
  pipXRatio,        \* state
  pipYRatio,        \* state
  draggingTileRef,  \* ref: key of the tile being dragged, or "none"
  lastTappedRef,    \* ref: per key, the age of the recorded tap time
  lastLayoutRef,    \* ref: layout seen by the last reconciliation
  isMounted,        \* ref of useIsMounted
  timers,           \* pending removal timers, in the order they were set
  revertLayoutRef,          \* useVideoGridLayout: the layout the user chose last
  prevHasScreenshareFeeds,  \* useVideoGridLayout: the argument of the last render
  argTileCount,             \* getTilePositions called on its own: its first argument
  argPresenterTileCount,    \* its second argument
  scrollPosition,           \* state: the scroll offset of the spectator strip
  passwordsMatch,       \* RegisterPage form: password = passwordConfirmation
  submitEvents,         \* submit events the form handler has taken
  submitPc,             \* where submit() stands: the await it is suspended at
  registering,          \* state
  error,                \* state: the stored error, "none" when undefined
  calls,                \* the calls submit() and its handlers have made, in order
  roomIndex,            \* the room of the migration loop (1-based)
  authenticated,        \* useClientLegacy
  passwordlessUser,     \* useClientLegacy
  clientHasGroupCalls,  \* client && client.groupCallEventHandler
  groupCalls,           \* the number of the client's group calls
  locationFrom          \* location.state?.from is set

\* The refs of useVideoGridLayout (layoutRef.current is the layout prop).
hookVars == <<revertLayoutRef, prevHasScreenshareFeeds>>

\* The counts passed when getTilePositions is called on its own.
countVars == <<argTileCount, argPresenterTileCount>>

\* The state of VideoGrid and of the hook.
gridVars == <<items, layout, gridBounds, tiles, tilePositions, pipXRatio, pipYRatio,
              draggingTileRef, lastTappedRef, lastLayoutRef, isMounted, timers,
              hookVars, countVars, scrollPosition>>

\* What RegisterPage gets from its context and from the router.
contextVars == <<authenticated, passwordlessUser, clientHasGroupCalls, groupCalls,
                 locationFrom>>

\* The state of RegisterPage.
pageVars == <<passwordsMatch, submitEvents, submitPc, registering, error, calls,
              roomIndex, contextVars>>

vars == <<items, layout, gridBounds, tiles, tilePositions, pipXRatio, pipYRatio,
          draggingTileRef, lastTappedRef, lastLayoutRef, isMounted, timers,
          revertLayoutRef, prevHasScreenshareFeeds, argTileCount, argPresenterTileCount,
          scrollPosition, passwordsMatch, submitEvents, submitPc, registering, error,
          calls, roomIndex, authenticated, passwordlessUser, clientHasGroupCalls,
          groupCalls, locationFrom>>

\* The ages of a recorded tap time: none recorded (undefined or 0), at most
\* 500 ms before now, more than 500 ms before now.
TapAges == {"unset", "fresh", "stale"}

\* The closure a removal timer runs with: the keys it removes and the props and
\* state of the render that scheduled it.
Timer(keys, bounds, pipX, pipY, lay) ==
  [removedTileKeys |-> keys, gridBounds |-> bounds, pipXRatio |-> pipX,
   pipYRatio |-> pipY, layout |-> lay]

\* RegisterPage before anyone has touched its form, for a visitor who is not
\* signed in.
NoPage ==
  /\ passwordsMatch = TRUE
  /\ submitEvents = 0
  /\ submitPc = "idle"
  /\ registering = FALSE
  /\ error = "none"
  /\ calls = <<>>
  /\ roomIndex = 0
  /\ authenticated = FALSE
  /\ passwordlessUser = FALSE
  /\ clientHasGroupCalls = FALSE
  /\ groupCalls = 0
  /\ locationFrom = FALSE

\* VideoGrid after the first render and its effects: no items, not yet measured.
Unrendered ==
  /\ items = <<>>
  /\ layout = "freedom"
  /\ gridBounds = Unmeasured
  /\ tiles = <<>>
  /\ tilePositions = <<>>
  /\ pipXRatio = N(1)
  /\ pipYRatio = N(1)
  /\ draggingTileRef = "none"
  /\ lastTappedRef = [k \in Keys |-> "unset"]
  /\ lastLayoutRef = "freedom"
  /\ isMounted = TRUE
  /\ timers = <<>>
  /\ revertLayoutRef = "freedom"
  /\ prevHasScreenshareFeeds = FALSE
  /\ argTileCount = 0
  /\ argPresenterTileCount = 0
  /\ scrollPosition = N(0)

\* The state after the first render and its effects.
Init == Unrendered /\ NoPage

\* The effect of VideoGrid, run with the props and state of the new render.
\* Timers with equal delays fire in the order they were set.
Reconcile(newItems, newLayout, newBounds, newPipX, newPipY) ==
  LET removed == removedTileKeys(tiles, newItems)
      newTiles == ReconcileTiles(tiles, newItems, newLayout, lastLayoutRef)
  IN  /\ removed # {} => Len(timers) < MaxTimers
      /\ tiles' = newTiles
      /\ tilePositions' = TilePositionsFor(newTiles, newBounds, newPipX, newPipY, newLayout)
      /\ timers' =
           IF removed # {}
           THEN Append(timers, Timer(removed, newBounds, newPipX, newPipY, newLayout))
           ELSE timers
      /\ lastLayoutRef' = newLayout

\* The caller passes a new item list.
SetItems(lists) ==
  \E newItems \in lists :
    /\ isMounted
    /\ newItems # items
    /\ items' = newItems
    /\ Reconcile(newItems, layout, gridBounds, pipXRatio, pipYRatio)
    /\ UNCHANGED <<layout, gridBounds, pipXRatio, pipYRatio, draggingTileRef,
                   lastTappedRef, isMounted>>
    /\ UNCHANGED <<hookVars, countVars, scrollPosition, pageVars>>

\* The caller passes another layout mode.
SetLayout ==
  \E newLayout \in Layouts :
    /\ isMounted
    /\ newLayout # layout
    /\ layout' = newLayout
    /\ Reconcile(items, newLayout, gridBounds, pipXRatio, pipYRatio)
    /\ UNCHANGED <<items, gridBounds, pipXRatio, pipYRatio, draggingTileRef,
                   lastTappedRef, isMounted>>
    /\ UNCHANGED <<hookVars, countVars, scrollPosition, pageVars>>

\* The grid element is measured at another size.
Resize(viewports) ==
  \E newBounds \in viewports :
    /\ isMounted
    /\ newBounds # gridBounds
    /\ gridBounds' = newBounds
    /\ Reconcile(items, layout, newBounds, pipXRatio, pipYRatio)
    /\ UNCHANGED <<items, layout, pipXRatio, pipYRatio, draggingTileRef,
                   lastTappedRef, isMounted>>
    /\ UNCHANGED <<hookVars, countVars, scrollPosition, pageVars>>

\* A variant of TimerPurge that keeps the rectangles of the previous state.
TimerPurgeStale(t) ==
  /\ tiles' = PurgeTiles(tiles, t.removedTileKeys)
  /\ tilePositions' = tilePositions

\* The state the removal timer's updater returns.
TimerPurge(t) ==
  LET newTiles == PurgeTiles(tiles, t.removedTileKeys)
  IN  /\ tiles' = newTiles
      /\ tilePositions' =
           TilePositionsFor(newTiles, t.gridBounds, t.pipXRatio, t.pipYRatio, t.layout)

\* A variant of TimerFire without the check of isMounted.
TimerFireUnchecked ==
  /\ timers # <<>>
  /\ timers' = Tail(timers)
  /\ TimerPurge(Head(timers))
  /\ UNCHANGED <<items, layout, gridBounds, pipXRatio, pipYRatio, draggingTileRef,
                 lastTappedRef, lastLayoutRef, isMounted>>
  /\ UNCHANGED <<hookVars, countVars, scrollPosition, pageVars>>

\* The callback of the removal timer that was set first.
TimerFire ==
  /\ timers # <<>>
  /\ timers' = Tail(timers)
  /\ IF ~isMounted
     THEN UNCHANGED <<tiles, tilePositions>>
     ELSE TimerPurge(Head(timers))
  /\ UNCHANGED <<items, layout, gridBounds, pipXRatio, pipYRatio, draggingTileRef,
                 lastTappedRef, lastLayoutRef, isMounted>>
  /\ UNCHANGED <<hookVars, countVars, scrollPosition, pageVars>>

\* The component is torn down: the cleanup of useIsMounted's effect.
Unmount ==
  /\ isMounted
  /\ isMounted' = FALSE
  /\ UNCHANGED <<items, layout, gridBounds, tiles, tilePositions, pipXRatio, pipYRatio,
                 draggingTileRef, lastTappedRef, lastLayoutRef, timers>>
  /\ UNCHANGED <<hookVars, countVars, scrollPosition, pageVars>>

\* The clones onTap's updater makes: the tapped tile's focus is toggled.
WithFocusToggled(ts, key) ==
  [i \in DOMAIN ts |->
     IF ts[i].key = key THEN [ts[i] EXCEPT !.focused = ~@] ELSE ts[i]]

\* A variant of TapTiles that leaves the tiles in the order they had.
TapTilesInPlace(ts, key) == WithFocusToggled(ts, key)

\* The tiles onTap's updater builds.
TapTiles(ts, key) == reorderTiles(WithFocusToggled(ts, key))

\* A variant of IsSecondTap without the test of the 500 ms.
IsSecondTapAnyAge(age) == age # "unset"

\* !(!lastTapped || Date.now() - lastTapped > 500), on the age of the record.
IsSecondTap(age) == age = "fresh"

\* A variant of TogglesFocus without the test of the layout.
TogglesFocusAnyLayout(ts, key, lay) == key \in TileKeys(ts)

\* !(!tile || layout !== "freedom"): the double tap goes on to toggle the focus.
TogglesFocus(ts, key, lay) == key \in TileKeys(ts) /\ lay = "freedom"

\* onTap(tileKey).  The tap is recorded unless a tap at most 500 ms old is on
\* record; then the record is set to 0 and the tile's focus is toggled.
onTap(key) ==
  IF ~IsSecondTap(lastTappedRef[key])
  THEN /\ lastTappedRef' = [lastTappedRef EXCEPT ![key] = "fresh"]
       /\ UNCHANGED <<tiles, tilePositions>>
  ELSE /\ lastTappedRef' = [lastTappedRef EXCEPT ![key] = "unset"]
       /\ IF ~TogglesFocus(tiles, key, layout)
          THEN UNCHANGED <<tiles, tilePositions>>
          ELSE LET newTiles == TapTiles(tiles, key)
               IN  /\ tiles' = newTiles
                   /\ tilePositions' =
                        TilePositionsFor(newTiles, gridBounds, pipXRatio, pipYRatio, layout)

\* A tap (a drag event with tap = true) on a rendered tile.
Tap(keys) ==
  \E key \in keys \cap TileKeys(tiles) :
    /\ isMounted
    /\ onTap(key)
    /\ UNCHANGED <<items, layout, gridBounds, pipXRatio, pipYRatio, draggingTileRef,
                   lastLayoutRef, isMounted, timers>>
    /\ UNCHANGED <<hookVars, countVars, scrollPosition, pageVars>>

\* More than 500 ms pass since the tap recorded for a key: Date.now() grows.
Elapse(keys) ==
  \E key \in keys :
    /\ lastTappedRef[key] = "fresh"
    /\ lastTappedRef' = [lastTappedRef EXCEPT ![key] = "stale"]
    /\ UNCHANGED <<items, layout, gridBounds, tiles, tilePositions, pipXRatio, pipYRatio,
                   draggingTileRef, lastLayoutRef, isMounted, timers>>
    /\ UNCHANGED <<hookVars, countVars, scrollPosition, pageVars>>

TileOf(ts, key) == ts[FindIndex([n \in DOMAIN ts |-> ts[n].key = key])]

\* Math.max(0, Math.min(1, ratio))
ClampRatio(ratio) == MathMax(N(0), MathMin(N(1), ratio))

\* The PiP ratios a released drag of the local tile stores (1:1 mode).
NewPipRatios(dragTilePosition, movement) ==
  LET remotePosition == tilePositions[2]
      pipGap == N(getPipGap(Div(gridBounds.width, gridBounds.height)))
      pipMinX == Add(remotePosition.x, pipGap)
      pipMinY == Add(remotePosition.y, pipGap)
      pipMaxX == Sub(Sub(Add(remotePosition.x, remotePosition.width),
                         dragTilePosition.width), pipGap)
      pipMaxY == Sub(Sub(Add(remotePosition.y, remotePosition.height),
                         dragTilePosition.height), pipGap)
      newPipXRatio ==
        Div(Sub(Add(dragTilePosition.x, movement[1]), pipMinX), Sub(pipMaxX, pipMinX))
      newPipYRatio ==
        Div(Sub(Add(dragTilePosition.y, movement[2]), pipMinY), Sub(pipMaxY, pipMinY))
  IN  <<ClampRatio(newPipXRatio), ClampRatio(newPipYRatio)>>

\* A variant of HoverOrder that exchanges the two orders and shifts no tile.
HoverOrderSwap(order, dragOrder, hoverOrder) ==
  IF order = dragOrder THEN hoverOrder
  ELSE IF order = hoverOrder THEN dragOrder
  ELSE order

\* The order a drag over hoverTile gives a tile: the dragged tile takes the
\* hovered tile's order and the tiles from there to its old place shift by one.
HoverOrder(order, dragOrder, hoverOrder) ==
  IF order < dragOrder
  THEN (IF order >= hoverOrder THEN order + 1 ELSE order)
  ELSE IF order > dragOrder
  THEN (IF order <= hoverOrder THEN order - 1 ELSE order)
  ELSE hoverOrder

\* A variant of HoverFocused in which the hovered tile keeps its flag.
HoverFocusedCopy(tile, dragTile, hoverTile) ==
  IF tile = dragTile THEN hoverTile.focused ELSE tile.focused

\* The focused flag a drag over hoverTile gives a tile: the two swap theirs.
HoverFocused(tile, dragTile, hoverTile) ==
  IF tile = hoverTile THEN dragTile.focused
  ELSE IF tile = dragTile THEN hoverTile.focused
  ELSE tile.focused

\* The tiles a drag over hoverTile builds.
HoverTiles(ts, dragTile, hoverTile) ==
  reorderTiles(
    [i \in DOMAIN ts |->
       [ts[i] EXCEPT !.order = HoverOrder(ts[i].order, dragTile.order, hoverTile.order),
                     !.focused = HoverFocused(ts[i], dragTile, hoverTile)]])

\* The end of the drag handler: the ref of the dragged tile.
\* The value the end of the drag handler leaves in draggingTileRef.current.
NewDragging(key, active) ==
  IF active THEN (IF draggingTileRef = "none" THEN key ELSE draggingTileRef)
  ELSE "none"

SetDragging(key, active) ==
  draggingTileRef' = NewDragging(key, active)

\* The two early returns of the drag handler: the layout is not "freedom",
\* or there are two tiles and the dragged one is not the local one.
DragReturnsEarly(key) ==
  \/ layout # "freedom"
  \/ Len(tiles) = 2 /\ ~TileOf(tiles, key).item.isLocal

\* draggingTileRef.current after the handler has run for a drag event on
\* the tile key: an early return leaves it as it was.
RefAfterDragEvent(key, active) ==
  IF DragReturnsEarly(key) THEN draggingTileRef ELSE NewDragging(key, active)

\* A variant of the handler that takes every event for the last one.
IsLastAlways(active) ==
  TRUE

\* use-gesture's "last" flag of a drag event: set on the event that ends
\* the gesture, the one with active = false.
IsLast(active) ==
  ~active

\* The points a pointer is tried at: the centre of each rectangle and a point
\* outside the grid.
Centre(r) == <<Add(r.x, Div(r.width, N(2))), Add(r.y, Div(r.height, N(2)))>>

Outside == <<N(-1), N(-1)>>

Cursors == {Centre(tilePositions[i]) : i \in DOMAIN tilePositions} \cup {Outside}

\* The pointer positions and movements tried for a drag event: the movement is
\* read only in 1:1 mode and the position only outside it.
DragInputs(movements) ==
  IF Len(tiles) = 2 THEN {<<Outside, m>> : m \in movements}
  ELSE {<<xy, <<N(0), N(0)>>>> : xy \in Cursors}

\* A drag event (tap = false) on a rendered tile: the handler of useDrag.
\* active = false is the last event of the gesture.
Drag(keys, movements) ==
  \E key \in keys \cap TileKeys(tiles), active \in BOOLEAN, input \in DragInputs(movements) :
    LET xy == input[1]
        movement == input[2]
        dragTile == TileOf(tiles, key)
        dragTilePosition == tilePositions[dragTile.order + 1]
        cursorPosition == <<Sub(xy[1], gridBounds.left), Sub(xy[2], gridBounds.top)>>
        hoverIndex ==
          FindIndex([n \in DOMAIN tiles |->
            /\ tiles[n].key # key
            /\ isInside(cursorPosition, tilePositions[tiles[n].order + 1])])
        last == IsLast(active)
    IN  /\ isMounted
        /\ ~DragReturnsEarly(key)          \* otherwise the handler returns at once
        /\ IF Len(tiles) = 2
           THEN /\ IF last
                   THEN LET new == NewPipRatios(dragTilePosition, movement)
                        IN  /\ pipXRatio' = new[1]
                            /\ pipYRatio' = new[2]
                            /\ IF new = <<pipXRatio, pipYRatio>>
                               THEN UNCHANGED <<tiles, tilePositions, timers, lastLayoutRef>>
                               ELSE Reconcile(items, layout, gridBounds, new[1], new[2])
                   ELSE UNCHANGED <<tiles, tilePositions, pipXRatio, pipYRatio, timers,
                                    lastLayoutRef>>
           ELSE /\ tiles' = IF hoverIndex # 0
                            THEN HoverTiles(tiles, dragTile, tiles[hoverIndex])
                            ELSE tiles
                /\ UNCHANGED <<tilePositions, pipXRatio, pipYRatio, timers, lastLayoutRef>>
        /\ SetDragging(key, active)
        /\ UNCHANGED <<items, layout, gridBounds, lastTappedRef, isMounted>>
        /\ UNCHANGED <<hookVars, countVars, scrollPosition, pageVars>>

\* The lower limit onGridGesture clamps the scroll offset to: the offset that
\* brings the far edge of the last rectangle GAP inside the viewport, along
\* the axis the spectators are laid out on; 0 when there is at most one tile.
ScrollMin ==
  IF Len(tilePositions) > 1
  THEN LET lastTile == tilePositions[Len(tilePositions)]
       IN  IF isMobileBreakpoint(gridBounds.width, gridBounds.height)
           THEN Sub(Sub(Sub(gridBounds.width, lastTile.x), lastTile.width), N(GAP))
           ELSE Sub(Sub(Sub(gridBounds.height, lastTile.y), lastTile.height), N(GAP))
  ELSE N(0)

\* Math.min(Math.max(position, min), 0)
ScrollClamp(position, min) ==
  MathMin(MathMax(position, min), N(0))

\* A wheel or drag event on the grid: e.delta along the scroll axis is one
\* of deltas, negated for a wheel event.
onGridGesture(deltas) ==
  \E delta \in deltas, isWheel \in BOOLEAN :
    LET movement == IF isWheel THEN Sub(N(0), delta) ELSE delta
    IN  /\ isMounted
        /\ layout = "spotlight"           \* otherwise the handler returns at once
        /\ scrollPosition' = ScrollClamp(Add(movement, scrollPosition), ScrollMin)
        /\ UNCHANGED <<items, layout, gridBounds, tiles, tilePositions, pipXRatio,
                       pipYRatio, draggingTileRef, lastTappedRef, lastLayoutRef,
                       isMounted, timers, hookVars, countVars, pageVars>>

-----------------------------------------------------------------------------
(* useVideoGridLayout, in the component that renders VideoGrid with the
   layout the hook returns *)

\* A variant of useVideoGridLayout that goes back to "freedom" when the
\* screenshares have ended.
useVideoGridLayoutFreedom(layoutRef, revert, prev, hasScreenshareFeeds) ==
  IF prev # hasScreenshareFeeds
  THEN (IF hasScreenshareFeeds THEN "spotlight" ELSE "freedom")
  ELSE layoutRef

\* The body of the hook during a render: the layout it returns, from
\* layoutRef.current, revertLayoutRef.current, prevHasScreenshareFeeds.current
\* and the argument.
useVideoGridLayout(layoutRef, revert, prev, hasScreenshareFeeds) ==
  IF prev # hasScreenshareFeeds
  THEN (IF hasScreenshareFeeds THEN "spotlight" ELSE revert)
  ELSE layoutRef

\* A render of the hook with the refs as given, then VideoGrid's effect if the
\* layout it is passed has changed.
Render(layoutRef, revert, hasScreenshareFeeds) ==
  LET newLayout ==
        useVideoGridLayout(layoutRef, revert, prevHasScreenshareFeeds, hasScreenshareFeeds)
  IN  /\ prevHasScreenshareFeeds' = hasScreenshareFeeds
      /\ layout' = newLayout
      /\ IF newLayout # layout
         THEN Reconcile(items, newLayout, gridBounds, pipXRatio, pipYRatio)
         ELSE UNCHANGED <<tiles, tilePositions, timers, lastLayoutRef>>

\* The user picks a layout: setLayout stores it in both refs and forces a render.
setLayout ==
  \E newLayout \in Layouts :
    /\ isMounted
    /\ revertLayoutRef' = newLayout
    /\ Render(newLayout, newLayout, prevHasScreenshareFeeds)
    /\ UNCHANGED <<items, gridBounds, pipXRatio, pipYRatio, draggingTileRef,
                   lastTappedRef, isMounted, countVars,
                   scrollPosition, pageVars>>

\* A screenshare starts, or the last one ends: a render with the other argument.
Screenshare ==
  \E hasScreenshareFeeds \in BOOLEAN :
    /\ isMounted
    /\ hasScreenshareFeeds # prevHasScreenshareFeeds
    /\ Render(layout, revertLayoutRef, hasScreenshareFeeds)
    /\ UNCHANGED <<items, gridBounds, pipXRatio, pipYRatio, draggingTileRef,
                   lastTappedRef, isMounted, revertLayoutRef, countVars,
                   scrollPosition, pageVars>>

\* The first render, with or without a screenshare: prevHasScreenshareFeeds
\* starts as the argument and both layout refs as "freedom".
FirstRender ==
  /\ items = <<>>
  /\ layout = "freedom"
  /\ gridBounds = Unmeasured
  /\ tiles = <<>>
  /\ tilePositions = <<>>
  /\ pipXRatio = N(1)
  /\ pipYRatio = N(1)
  /\ draggingTileRef = "none"
  /\ lastTappedRef = [k \in Keys |-> "unset"]
  /\ lastLayoutRef = "freedom"
  /\ isMounted = TRUE
  /\ timers = <<>>
  /\ revertLayoutRef = "freedom"
  /\ prevHasScreenshareFeeds \in BOOLEAN
  /\ argTileCount = 0
  /\ argPresenterTileCount = 0
  /\ scrollPosition = N(0)
  /\ NoPage

-----------------------------------------------------------------------------
(* RegisterPage: the submit handler of the registration form.  submit() is an
   async function: it runs from one await to the next in one step, and the
   handlers chained to its promise run in the step that settles it. *)

\* Submit events tried.
MaxSubmits == 2

\* Group calls of the client whose rooms are migrated.
MaxRooms == 2

\* One call made by the page: the function and, for a room, its place in
\* client.groupCallEventHandler.groupCalls (0 when the call is not about a room).
Made(fn, room) == [fn |-> fn, room |-> room]

\* The ways an awaited joinRoom can settle: resolved, or rejected with the
\* errcode M_LIMIT_EXCEEDED, or rejected with another error.
JoinOutcomes == {"ok", "M_LIMIT_EXCEEDED", "M_FORBIDDEN"}

\* The condition of the redirect effect.
RedirectEffect(loading, isAuthenticated, isPasswordless, isRegistering) ==
  ~loading /\ isAuthenticated /\ ~isPasswordless /\ ~isRegistering

\* The calls of the redirect effect when it runs after registering has
\* changed; the form is rendered, so loading is false.
Redirect(isRegistering) ==
  IF RedirectEffect(FALSE, authenticated, passwordlessUser, isRegistering)
  THEN <<Made("history.push(/)", 0)>>
  ELSE <<>>

\* The page shows its form: the redirect effect of the first render has not
\* navigated away.  A passwordless user is authenticated, and only an
\* authenticated visitor has a client with group calls.
FormShown ==
  /\ passwordsMatch \in BOOLEAN
  /\ submitEvents = 0
  /\ submitPc = "idle"
  /\ registering = FALSE
  /\ error = "none"
  /\ calls = <<>>
  /\ roomIndex = 0
  /\ authenticated \in BOOLEAN
  /\ passwordlessUser \in BOOLEAN
  /\ passwordlessUser => authenticated
  /\ ~RedirectEffect(FALSE, authenticated, passwordlessUser, registering)
  /\ clientHasGroupCalls \in BOOLEAN
  /\ clientHasGroupCalls => authenticated
  /\ groupCalls \in 0..MaxRooms
  /\ ~clientHasGroupCalls => groupCalls = 0
  /\ locationFrom \in BOOLEAN

RegisterInit == Unrendered /\ FormShown

\* The user edits one of the two password fields.
EditForm ==
  /\ submitPc # "resolved"
  /\ passwordsMatch' = ~passwordsMatch
  /\ UNCHANGED <<submitEvents, submitPc, registering, error, calls, roomIndex,
                 contextVars, gridVars>>

\* The form is submitted.  The submit button is disabled while registering.
onSubmitRegisterForm ==
  /\ submitPc \in {"idle", "rejected"}
  /\ ~registering
  /\ submitEvents < MaxSubmits
  /\ submitEvents' = submitEvents + 1
  /\ IF ~passwordsMatch
     THEN UNCHANGED <<submitPc, registering, error, calls, roomIndex>>
     ELSE /\ registering' = TRUE
          /\ calls' = (calls \o Redirect(TRUE)) \o <<Made("execute", 0)>>
          /\ submitPc' = "execute"
          /\ roomIndex' = 0
          /\ UNCHANGED error
  /\ UNCHANGED <<passwordsMatch, contextVars, gridVars>>

\* A variant of the catch handler that leaves the recaptcha as it is.
CatchWithoutReset(reason) ==
  /\ error' = reason
  /\ registering' = FALSE
  /\ calls' = calls \o Redirect(FALSE)
  /\ submitPc' = "rejected"
  /\ UNCHANGED roomIndex

\* submit() rejects: the handler passed to catch, then the redirect effect
\* of the render with registering = false.
Catch(reason) ==
  /\ error' = reason
  /\ registering' = FALSE
  /\ calls' = (calls \o <<Made("reset", 0)>>) \o Redirect(FALSE)
  /\ submitPc' = "rejected"
  /\ UNCHANGED roomIndex

\* The end of submit() after the migration, and the handler passed to then.
\* setClient is the function the client context provides.
Finish(made) ==
  /\ calls' = made \o <<Made("setClient", 0), Made("cacheSignupEnd", 0),
                         Made(IF locationFrom THEN "history.push(from)"
                              ELSE "history.push(/)", 0)>>
  /\ submitPc' = "resolved"
  /\ UNCHANGED <<registering, error, roomIndex>>

\* The migration loop from its room-th group call on, made being the calls
\* so far.
LoopFrom(made, room) ==
  IF room <= groupCalls
  THEN /\ roomIndex' = room
       /\ calls' = Append(made, Made("joinRoom", room))
       /\ submitPc' = "joinRoom"
       /\ UNCHANGED <<registering, error>>
  ELSE Finish(made)

\* await execute() settles.
ExecuteSettles ==
  \E ok \in BOOLEAN :
    /\ submitPc = "execute"
    /\ IF ok
       THEN /\ calls' = Append(calls, Made("register", 0))
            /\ submitPc' = "register"
            /\ UNCHANGED <<registering, error, roomIndex>>
       ELSE Catch("execute")
    /\ UNCHANGED <<passwordsMatch, submitEvents, contextVars, gridVars>>

\* The rooms are migrated for a passwordless user whose client has group calls.
Migrates == clientHasGroupCalls /\ passwordlessUser

\* await register(...) settles.
RegisterSettles ==
  \E ok \in BOOLEAN :
    /\ submitPc = "register"
    /\ IF ok
       THEN (IF Migrates THEN LoopFrom(calls, 1) ELSE Finish(calls))
       ELSE Catch("register")
    /\ UNCHANGED <<passwordsMatch, submitEvents, contextVars, gridVars>>

\* The first await newClient.joinRoom(roomId) of a room settles.
JoinSettles ==
  \E outcome \in JoinOutcomes :
    /\ submitPc = "joinRoom"
    /\ IF outcome = "ok"
       THEN LoopFrom(calls, roomIndex + 1)
       ELSE IF outcome = "M_LIMIT_EXCEEDED"
       THEN /\ calls' = Append(calls, Made("sleep", roomIndex))
            /\ submitPc' = "sleep"
            /\ UNCHANGED <<registering, error, roomIndex>>
       ELSE LoopFrom(calls \o <<Made("captureException", roomIndex),
                                Made("logger.error", roomIndex)>>, roomIndex + 1)
    /\ UNCHANGED <<passwordsMatch, submitEvents, contextVars, gridVars>>

\* await sleep(error.data.retry_after_ms) is over.
SleepSettles ==
  /\ submitPc = "sleep"
  /\ calls' = Append(calls, Made("joinRoom", roomIndex))
  /\ submitPc' = "retry"
  /\ UNCHANGED <<registering, error, roomIndex>>
  /\ UNCHANGED <<passwordsMatch, submitEvents, contextVars, gridVars>>

\* A variant in which a retry that fails is logged like a first failure.
RetryRejectedLogged ==
  LoopFrom(calls \o <<Made("captureException", roomIndex),
                      Made("logger.error", roomIndex)>>, roomIndex + 1)

\* The second joinRoom is awaited inside the catch block: its rejection is
\* the rejection of submit().
RetryRejected ==
  Catch("joinRoom")

\* The second await newClient.joinRoom(roomId) of a room settles.
RetrySettles ==
  \E ok \in BOOLEAN :
    /\ submitPc = "retry"
    /\ IF ok THEN LoopFrom(calls, roomIndex + 1) ELSE RetryRejected
    /\ UNCHANGED <<passwordsMatch, submitEvents, contextVars, gridVars>>

-----------------------------------------------------------------------------
(* Specifications *)

\* Item lists whose items carry no focused flag.
PlainLists == {l \in RosterLists : \A i \in DOMAIN l : ~l[i].focused}

\* A drag far beyond the top left corner of the grid.
FarUpLeft == <<N(-2000), N(-2000)>>

\* The grid with all its operations: reconciliation, removal timers, taps on
\* one remote tile and drags of the local tile.
Next ==
  \/ SetItems(PlainLists)
  \/ SetLayout
  \/ Resize({Desktop})
  \/ TimerFire
  \/ Tap({"B"})
  \/ Elapse({"B"})
  \/ Drag({"A"}, {FarUpLeft})

Spec == Init /\ [][Next]_vars

\* The step is the callback of a removal timer: of the steps below only
\* TimerFire takes the head off timers, and it can whenever a timer is pending.
TimerStep == timers # <<>> /\ timers' = Tail(timers)

\* Reconciliation and removal timers over every item list, with taps and
\* teardown.  A timer that has been set fires eventually (setTimeout): weak
\* fairness of the timer's callback.
ReconcileNext ==
  \/ SetItems(ItemLists)
  \/ SetLayout
  \/ Resize({Desktop})
  \/ TimerFire
  \/ Unmount
  \/ Tap({"B"})
  \/ Elapse({"B"})

FairSpec == Init /\ [][ReconcileNext]_vars /\ WF_timers(TimerStep)

\* Item lists of the 1:1 call: the local and one remote participant.
PairLists == {l \in PlainLists : ItemIds(l) \subseteq {"A", "B"}}

\* Drags of the PiP: straight down, and far beyond the top left corner.
StraightDown == <<N(0), N(2000)>>

\* The 1:1 call at a desktop window and at a small window, with drags of the
\* local tile (the PiP).
PipNext ==
  \/ SetItems(PairLists)
  \/ SetLayout
  \/ Resize({Desktop, SmallWindow})
  \/ TimerFire
  \/ Drag({"A"}, {StraightDown, FarUpLeft})

PipSpec == Init /\ [][PipNext]_vars

\* The grid under the layout hook: the user's layout choices and screenshares
\* starting and ending decide the layout the grid reconciles with.
LayoutNext ==
  \/ setLayout
  \/ Screenshare
  \/ SetItems(PlainLists)
  \/ Resize({Desktop})
  \/ TimerFire

LayoutSpec == FirstRender /\ [][LayoutNext]_vars


-----------------------------------------------------------------------------
(* getTilePositions called on its own *)

\* Bound of the tile counts tried: one more than the largest count of the
\* lookup table of getSubGridLayout.
MaxTiles == 13

\* More viewports: the 16:9 window of the worked example, an ultrawide
\* window, a narrow phone, and a grid collapsed to no height.
Widescreen == Bounds(1600, 900)
Ultrawide == Bounds(3000, 600)
NarrowPhone == Bounds(400, 1000)
Collapsed == Bounds(1000, 0)
AllViewports == Viewports \cup {Widescreen, Ultrawide, NarrowPhone, Collapsed}

\* No call yet (no tile gives no rectangle), for each layout and viewport.
NoTiles ==
  /\ items = <<>>
  /\ layout \in Layouts
  /\ gridBounds \in AllViewports
  /\ tiles = <<>>
  /\ tilePositions = <<>>
  /\ pipXRatio = N(1)
  /\ pipYRatio = N(1)
  /\ draggingTileRef = "none"
  /\ lastTappedRef = [k \in Keys |-> "unset"]
  /\ lastLayoutRef = layout
  /\ isMounted = TRUE
  /\ timers = <<>>
  /\ revertLayoutRef = "freedom"
  /\ prevHasScreenshareFeeds = FALSE
  /\ argTileCount = 0
  /\ argPresenterTileCount = 0
  /\ scrollPosition = N(0)
  /\ NoPage

\* A call of getTilePositions for the layout and viewport, with one more tile
\* than at the last call, one more presenter tile, or both.
Call ==
  \E count \in {argTileCount, argTileCount + 1}, presenters \in {argPresenterTileCount, argPresenterTileCount + 1} :
    /\ count <= MaxTiles
    /\ presenters <= count
    /\ <<count, presenters>> # <<argTileCount, argPresenterTileCount>>
    /\ argTileCount' = count
    /\ argPresenterTileCount' = presenters
    /\ tilePositions' =
         getTilePositions(count, presenters, gridBounds.width, gridBounds.height,
                          pipXRatio, pipYRatio, layout)
    /\ UNCHANGED <<items, layout, gridBounds, tiles, pipXRatio, pipYRatio, draggingTileRef,
                   lastTappedRef, lastLayoutRef, isMounted, timers, hookVars,
                   scrollPosition, pageVars>>

GeometrySpec == NoTiles /\ [][Call]_vars

-----------------------------------------------------------------------------
(* Properties *)

\* The order values of ts are exactly 0..n-1 for its n tiles.
DenseOrders(ts) == {ts[i].order : i \in DOMAIN ts} = 0..(Len(ts) - 1)

\* list without the items of id k.
Without(list, k) == SelectSeq(list, LAMBDA it : it.id # k)

\* C1: in every reachable state the order values of the retained tiles, those
\* pending removal included, are a permutation of 0..n-1: no gap, no duplicate.
OrdersArePermutation == DenseOrders(tiles)

\* Three tiles, one pending removal, one focused by a double tap, while the
\* local tile is being dragged and has been moved to the last place.
OrdersArePermutationWitness ==
  /\ Len(tiles) = 3
  /\ layout = "freedom"
  /\ \E i \in DOMAIN tiles : tiles[i].remove
  /\ \E i \in DOMAIN tiles : tiles[i].focused
  /\ draggingTileRef = "A"
  /\ \E i \in DOMAIN tiles : tiles[i].key = "A" /\ tiles[i].order = 2

\* C2: a tile whose key left the item list and is back in it before its removal
\* timer fires is still in the tile list after that timer has fired.
ReaddedTileSurvivesTimer ==
  [][\A k \in Keys :
       (/\ TimerStep
        /\ k \in Head(timers).removedTileKeys
        /\ k \in ItemIds(items)
        /\ k \in TileKeys(tiles))
       => k \in TileKeys(tiles')]_vars

\* C3: tile keys are unique within the tile list in every reachable state.
UniqueTileKeys == Cardinality(TileKeys(tiles)) = Len(tiles)

\* The item list repeats an id, and a key that was dropped is back in the list
\* and in the tiles while its removal timer is pending.
UniqueTileKeysWitness ==
  /\ \E i, j \in DOMAIN items : i < j /\ items[i].id = items[j].id
  /\ timers # <<>>
  /\ \E k \in Head(timers).removedTileKeys :
       k \in ItemIds(items) /\ k \in TileKeys(tiles)
  /\ Len(tiles) >= 2

\* C4: a tile whose key is absent from the item list after a step is, after
\* that step, still in the tile list, marked for removal and holding the item
\* it held before; and only the callback of a removal timer takes a tile out.
DroppedTileIsKept ==
  [][~TimerStep =>
       \A i \in DOMAIN tiles :
         /\ tiles[i].key \in TileKeys(tiles')
         /\ tiles[i].key \notin ItemIds(items') =>
              \E j \in DOMAIN tiles' :
                /\ tiles'[j].key = tiles[i].key
                /\ tiles'[j].remove
                /\ tiles'[j].item = tiles[i].item]_vars

\* A tile pending removal, holding the item of its key, next to a live tile,
\* with its removal timer pending.
DroppedTileIsKeptWitness ==
  /\ timers # <<>>
  /\ \E i, j \in DOMAIN tiles :
       /\ tiles[i].remove
       /\ tiles[i].key \notin ItemIds(items)
       /\ tiles[i].item.id = tiles[i].key
       /\ tiles[i].key \in Head(timers).removedTileKeys
       /\ ~tiles[j].remove

\* C5: while the grid stays mounted and the key stays out of the item list, a
\* tile whose key left the item list is eventually out of the tile list, and
\* the tiles that remain are numbered 0..n-1.
DroppedTileEventuallyPurged ==
  \A k \in Keys :
    (isMounted /\ k \in TileKeys(tiles) /\ k \notin ItemIds(items))
      ~> (\/ ~isMounted
          \/ k \in ItemIds(items)
          \/ k \notin TileKeys(tiles) /\ DenseOrders(tiles))

\* B was a tile (it has been tapped) and has been purged; tiles remain.
DroppedTileEventuallyPurgedWitness ==
  /\ isMounted
  /\ lastTappedRef["B"] # "unset"
  /\ "B" \notin TileKeys(tiles)
  /\ "B" \notin ItemIds(items)
  /\ timers = <<>>
  /\ Len(tiles) = 2
  /\ DenseOrders(tiles)

\* C6: from every reachable state, reconciling the item list without one of
\* its keys and then the item list again (no timer fires in between) leaves
\* the tile of that key with the order it had before.
DropAndReaddRestoresOrder ==
  \A k \in TileKeys(tiles) \cap ItemIds(items) :
    LET dropped == ReconcileTiles(tiles, Without(items, k), layout, lastLayoutRef)
        readded == ReconcileTiles(dropped, items, layout, layout)
    IN  /\ k \in TileKeys(readded)
        /\ TileOf(readded, k).order = TileOf(tiles, k).order

\* C7: the callback of a removal timer that runs after the grid was unmounted
\* changes neither the tiles nor the rectangles.
TimerAfterUnmountIsNoOp ==
  [][(TimerStep /\ ~isMounted) =>
       (tiles' = tiles /\ tilePositions' = tilePositions)]_vars

\* Unmounted, every timer has fired, and a tile pending removal is still there.
TimerAfterUnmountIsNoOpWitness ==
  /\ ~isMounted
  /\ timers = <<>>
  /\ \E i \in DOMAIN tiles : tiles[i].remove

\* C8: in every reachable state there are as many rectangles as tiles, and
\* tilePositions[tile.order] is defined for every tile.
RectanglesMatchTiles ==
  /\ Len(tilePositions) = Len(tiles)
  /\ \A i \in DOMAIN tiles : tiles[i].order + 1 \in DOMAIN tilePositions

\* Three tiles and three rectangles in the freedom layout, one tile focused by
\* a double tap and one pending removal.
RectanglesMatchTilesWitness ==
  /\ Len(tiles) = 3
  /\ Len(tilePositions) = 3
  /\ layout = "freedom"
  /\ \E i \in DOMAIN tiles : tiles[i].focused
  /\ \E i \in DOMAIN tiles : tiles[i].remove

\* The number of tiles of ts pending removal.
PendingCount(ts) == Cardinality({i \in DOMAIN ts : ts[i].remove})

\* The step is a reconciliation that found tiles to remove (it set a timer).
MarkingStep == Len(timers') > Len(timers)

\* C9 as stated: after a reconciliation that marks k of the n retained tiles as
\* pending removal, rectangles are computed for n - k tiles.
PendingTilesExcludedFromCount ==
  [][MarkingStep => Len(tilePositions') = Len(tiles') - PendingCount(tiles')]_vars

\* C9 amended: after a reconciliation that marks k > 0 of the n retained tiles
\* as pending removal, rectangles are computed for all n tiles.
PendingTilesIncludedInCount ==
  [][MarkingStep =>
       /\ PendingCount(tiles') > 0
       /\ Len(tilePositions') = Len(tiles')]_vars

\* Two of three tiles are pending removal, their timer is set, and there are
\* three rectangles.
PendingTilesIncludedInCountWitness ==
  /\ timers # <<>>
  /\ Len(tiles) = 3
  /\ PendingCount(tiles) = 2
  /\ Cardinality(Head(timers).removedTileKeys) = 2
  /\ Len(tilePositions) = 3

\* C10: pipXRatio and pipYRatio lie in [0, 1] in every reachable state.
PipRatiosInUnitInterval ==
  /\ Le(N(0), pipXRatio) /\ Le(pipXRatio, N(1))
  /\ Le(N(0), pipYRatio) /\ Le(pipYRatio, N(1))

\* C11: whenever an item is screen-sharing (the hook's argument of the last
\* render is true) the layout the hook returns is "spotlight", the first
\* render included.
SpotlightWhileScreensharing == prevHasScreenshareFeeds => layout = "spotlight"

\* The step is a render in which the screenshares have ended.
ScreenshareEnds == prevHasScreenshareFeeds /\ ~prevHasScreenshareFeeds'

\* C12: revertLayoutRef holds the layout the user picked last ("freedom" before
\* any pick): it changes only in a step that picks it, a pick made while no
\* screenshare starts or ends is the layout returned, and when the screenshares
\* end the layout returned is the layout the user picked last.
LayoutRevertsToUserChoice ==
  [][/\ revertLayoutRef' # revertLayoutRef =>
          (layout' = revertLayoutRef' /\ UNCHANGED prevHasScreenshareFeeds)
     /\ (layout' # layout /\ UNCHANGED prevHasScreenshareFeeds) =>
          revertLayoutRef' = layout'
     /\ ScreenshareEnds => layout' = revertLayoutRef]_vars

\* No screenshare is on, the layout the user picked last is "spotlight", and
\* the grid has reconciled its tiles with that layout.
LayoutRevertsToUserChoiceWitness ==
  /\ ~prevHasScreenshareFeeds
  /\ revertLayoutRef = "spotlight"
  /\ layout = "spotlight"
  /\ lastLayoutRef = "spotlight"
  /\ \E i \in DOMAIN tiles : tiles[i].presenter

\* The step completes a double tap on k: a tap while a tap at most 500 ms old
\* is on record.
DoubleTap(k) == lastTappedRef[k] = "fresh" /\ lastTappedRef'[k] = "unset"

\* C13: in freedom mode a completed double tap on a tile toggles its focused
\* flag, and a tile that it focuses has a lower order than every tile that is
\* neither focused nor presenter.
DoubleTapTogglesFocus ==
  [][\A k \in Keys :
       (DoubleTap(k) /\ layout = "freedom" /\ k \in TileKeys(tiles)) =>
         /\ k \in TileKeys(tiles')
         /\ TileOf(tiles', k).focused = ~TileOf(tiles, k).focused
         /\ TileOf(tiles', k).focused =>
              \A j \in DOMAIN tiles' :
                (~tiles'[j].focused /\ ~tiles'[j].presenter /\ tiles'[j].key # k) =>
                  TileOf(tiles', k).order < tiles'[j].order]_vars

\* B, listed after A, has been focused by a double tap and is the first of
\* three tiles; the record of its taps is reset.
DoubleTapTogglesFocusWitness ==
  /\ layout = "freedom"
  /\ Len(tiles) = 3
  /\ lastTappedRef["B"] = "unset"
  /\ "B" \in TileKeys(tiles)
  /\ TileOf(tiles, "B").focused
  /\ TileOf(tiles, "B").order = 0
  /\ "A" \in TileKeys(tiles)
  /\ TileOf(tiles, "A").order = 1

\* The focused flag of the tile of k differs before and after the step.
FocusFlips(k) ==
  /\ k \in TileKeys(tiles) \cap TileKeys(tiles')
  /\ TileOf(tiles', k).focused # TileOf(tiles, k).focused

\* C14: a tap changes tile state only as the second tap on a tile at most
\* 500 ms after the recorded one.  A step that records a tap (a first tap, or a
\* tap more than 500 ms after the recorded one) leaves tiles and rectangles
\* unchanged; a step that changes the record and the tiles or rectangles
\* completes a double tap; and with the layout staying "freedom" a focused flag
\* flips only in a step that completes a double tap, which resets the record.
OnlySecondTapToggles ==
  [][\A k \in Keys :
       /\ (lastTappedRef[k] # "fresh" /\ lastTappedRef'[k] = "fresh") =>
            UNCHANGED <<tiles, tilePositions>>
       /\ (/\ lastTappedRef'[k] # lastTappedRef[k]
           /\ <<tiles, tilePositions>>' # <<tiles, tilePositions>>) => DoubleTap(k)
       /\ (layout = "freedom" /\ layout' = "freedom" /\ FocusFlips(k)) =>
            (DoubleTap(k) /\ lastTappedRef'[k] = "unset")]_vars

\* B was focused by a double tap and a third tap on it, recorded as a first
\* tap, has become older than 500 ms: B is still focused.
OnlySecondTapTogglesWitness ==
  /\ layout = "freedom"
  /\ "B" \in TileKeys(tiles)
  /\ TileOf(tiles, "B").focused
  /\ lastTappedRef["B"] = "stale"

\* C15: in spotlight mode a step that is neither a change of the props or the
\* measured bounds nor a timer callback, that is, a tap or a drag event,
\* changes neither the tiles (the list, the orders, the focused flags) nor the
\* rectangles nor the PiP ratios; a drag event does not even set the ref of
\* the dragged tile.
SpotlightIgnoresGestures ==
  [][(layout = "spotlight" /\ UNCHANGED <<items, layout, gridBounds, timers>>) =>
       UNCHANGED <<tiles, tilePositions, pipXRatio, pipYRatio, draggingTileRef>>]_vars

\* Spotlight mode with three tiles, a tap on B on record (the next tap on B
\* completes a double tap) and a drag of A that began in freedom mode.
SpotlightIgnoresGesturesWitness ==
  /\ layout = "spotlight"
  /\ Len(tiles) = 3
  /\ lastTappedRef["B"] = "fresh"
  /\ draggingTileRef = "A"

\* Rectangle a ends where rectangle b starts or before it, top to bottom and
\* left to right.
Above(a, b) == Le(Add(a.y, a.height), b.y)

LeftOf(a, b) == Le(Add(a.x, a.width), b.x)

\* The rectangles of the last call, at the code's indices first..last.
Returned(first, last) == {tilePositions[j + 1] : j \in first..last}

\* C16: for every tile count, every presenter count up to it, every layout
\* and every viewport, getTilePositions returns as many rectangles as tiles;
\* in freedom mode the rectangles of the presenter tiles come first (their
\* grid is above or left of the grid of the others), and in spotlight mode the
\* rectangle at index 0 is the spotlight tile in the top left corner, the
\* others lying right of it or below it.
OneRectanglePerTile ==
  /\ Len(tilePositions) = argTileCount
  /\ (layout = "freedom" /\ 0 < argPresenterTileCount /\ argPresenterTileCount < argTileCount) =>
       \/ \A a \in Returned(0, argPresenterTileCount - 1) :
            \A b \in Returned(argPresenterTileCount, argTileCount - 1) : Above(a, b)
       \/ \A a \in Returned(0, argPresenterTileCount - 1) :
            \A b \in Returned(argPresenterTileCount, argTileCount - 1) : LeftOf(a, b)
  /\ (layout = "spotlight" /\ argTileCount > 0) =>
       /\ tilePositions[1].x = N(GAP)
       /\ tilePositions[1].y = N(GAP)
       /\ \A b \in Returned(1, argTileCount - 1) :
            Above(tilePositions[1], b) \/ LeftOf(tilePositions[1], b)

\* Thirteen tiles, three of them presenters, in freedom mode on a phone.
OneRectanglePerTileWitness ==
  /\ layout = "freedom"
  /\ gridBounds = Phone
  /\ argTileCount = MaxTiles
  /\ argPresenterTileCount = 3
  /\ Len(tilePositions) = MaxTiles

\* C17: for a viewport of no width or no height the computation returns no
\* rectangle with a negative or undefined width or height.
NoNegativeRectangles ==
  (~Gt(gridBounds.width, N(0)) \/ ~Gt(gridBounds.height, N(0))) =>
    \A j \in DOMAIN tilePositions :
      /\ IsFinite(tilePositions[j].width) /\ Le(N(0), tilePositions[j].width)
      /\ IsFinite(tilePositions[j].height) /\ Le(N(0), tilePositions[j].height)

\* The rectangles of the spectator tiles of the last call.
Spectators == Returned(1, argTileCount - 1)

\* C18 as stated: in spotlight mode with more than one tile the spectator
\* rectangles all have the same size and are squares, in both orientations.
SpectatorsAreSquares ==
  (layout = "spotlight" /\ argTileCount > 1) =>
    \A a, b \in Spectators :
      a.width = b.width /\ a.height = b.height /\ a.width = a.height

\* C18 amended: the spectator rectangles all have the same size; they are
\* squares in the portrait orientation (width / height < 1) and 16:9
\* (height = width * 9 / 16) in the landscape orientation.
SpectatorsAreUniform ==
  (layout = "spotlight" /\ argTileCount > 1) =>
    \A a, b \in Spectators :
      /\ a.width = b.width /\ a.height = b.height
      /\ a.height = IF Lt(Div(gridBounds.width, gridBounds.height), N(1))
                    THEN a.width
                    ELSE Mul(a.width, <<9, 16>>)

\* spotlightLayout(4, 1600, 900): three spectators of 315.2 by 177.3.
SpectatorsAreUniformWitness ==
  /\ layout = "spotlight"
  /\ gridBounds = Widescreen
  /\ argTileCount = 4
  /\ Len(tilePositions) = 4
  /\ tilePositions[2].width = <<1576, 5>>
  /\ tilePositions[4].height = <<1773, 10>>

\* The step runs the reconciliation effect: one of its dependencies changed.
ReconcileStep ==
  <<items, layout, gridBounds, pipXRatio, pipYRatio>>'
    # <<items, layout, gridBounds, pipXRatio, pipYRatio>>

\* C19: a reconciliation in freedom mode keeps every existing tile; when the
\* layout differs from the layout of the previous reconciliation it leaves
\* none of them focused, and when the layout is the same every existing tile
\* whose key is in the item list keeps its focused flag.
FocusResetOnLayoutChange ==
  [][(ReconcileStep /\ layout' = "freedom") =>
       \A k \in TileKeys(tiles) :
         /\ k \in TileKeys(tiles')
         /\ layout' # lastLayoutRef => ~TileOf(tiles', k).focused
         /\ (layout' = lastLayoutRef /\ k \in ItemIds(items')) =>
              TileOf(tiles', k).focused = TileOf(tiles, k).focused]_vars

\* Freedom mode after spotlight mode: B, whose item is focused, was the focused
\* and first tile in spotlight mode; it is first still and no longer focused.
FocusResetOnLayoutChangeWitness ==
  /\ layout = "freedom"
  /\ lastLayoutRef = "freedom"
  /\ \E i \in DOMAIN items : items[i].id = "B" /\ items[i].focused
  /\ {"A", "B"} \subseteq TileKeys(tiles)
  /\ ~TileOf(tiles, "B").focused
  /\ TileOf(tiles, "B").order = 0
  /\ TileOf(tiles, "A").order = 1
  /\ lastTappedRef["B"] = "unset"

\* The group reorderTiles puts a tile in: focused, presenter, other.
Group(tile) == IF tile.focused THEN 0 ELSE IF tile.presenter THEN 1 ELSE 2

\* Listed by ascending order the tiles of ts are grouped: the focused ones,
\* then the presenters that are not focused, then the others.
Partitioned(ts) ==
  \A i, j \in DOMAIN ts : ts[i].order < ts[j].order => Group(ts[i]) <= Group(ts[j])

\* Two tiles of the same group come in after in the order they come in before.
SameRelativeOrder(before, after) ==
  \A i, j \in DOMAIN before :
    (Group(before[i]) = Group(before[j]) /\ before[i].order < before[j].order) =>
      after[i].order < after[j].order

\* C20: in every reachable state the tiles are partitioned by ascending order
\* into focused, then non-focused presenter, then other tiles; and
\* reorderTiles, applied to the tiles with the focused flag of any one of them
\* toggled, partitions them again and keeps the relative order the tiles of
\* each group had.
StablePartition ==
  /\ Partitioned(tiles)
  /\ \A k \in TileKeys(tiles) :
       LET before == WithFocusToggled(tiles, k)
           after == reorderTiles(before)
       IN  /\ Partitioned(after)
           /\ SameRelativeOrder(before, after)
           /\ DenseOrders(after)

\* Spotlight mode with a focused tile, a presenter tile and another tile, in
\* that order, the list itself being in another order.
StablePartitionWitness ==
  /\ Len(tiles) = 3
  /\ \E i, j, n \in DOMAIN tiles :
       /\ tiles[i].focused /\ tiles[i].order = 0
       /\ ~tiles[j].focused /\ tiles[j].presenter /\ tiles[j].order = 1
       /\ ~tiles[n].focused /\ ~tiles[n].presenter /\ tiles[n].order = 2
       /\ n < i

\* The keys that get a tile in the step.
AddedKeys == TileKeys(tiles') \ TileKeys(tiles)

\* C21 as stated: when a reconciliation adds tiles, every existing tile keeps
\* its order value and the added tiles get the order values after all of
\* them, in both layout modes and whatever the flags of the new items.
NewTilesNeverDisplace ==
  [][AddedKeys # {} =>
       /\ \A k \in TileKeys(tiles) \cap TileKeys(tiles') :
            TileOf(tiles', k).order = TileOf(tiles, k).order
       /\ \A k \in AddedKeys : TileOf(tiles', k).order >= Len(tiles)]_vars

\* C21 amended: when a reconciliation adds tiles, an added tile comes after
\* every existing tile of its group (focused, presenter, other) and the
\* existing tiles of one group keep their relative order; in freedom mode,
\* where an added tile is neither focused nor presenter, every existing tile
\* keeps its order value and the added tiles get the order values after all
\* of them.
NewTilesLastInGroup ==
  [][AddedKeys # {} =>
       /\ \A k \in TileKeys(tiles) :
            /\ k \in TileKeys(tiles')
            /\ \A a \in AddedKeys :
                 Group(TileOf(tiles', a)) = Group(TileOf(tiles', k)) =>
                   TileOf(tiles', k).order < TileOf(tiles', a).order
            /\ \A j \in TileKeys(tiles) :
                 (/\ Group(TileOf(tiles', j)) = Group(TileOf(tiles', k))
                  /\ TileOf(tiles, j).order < TileOf(tiles, k).order) =>
                   TileOf(tiles', j).order < TileOf(tiles', k).order
       /\ layout' = "freedom" =>
            /\ \A k \in TileKeys(tiles) : TileOf(tiles', k).order = TileOf(tiles, k).order
            /\ \A k \in AddedKeys : TileOf(tiles', k).order >= Len(tiles)]_vars

\* Spotlight mode: the presenter C was added to the tiles of A and B, is last
\* in the list and first in order.
NewTilesLastInGroupWitness ==
  /\ layout = "spotlight"
  /\ Len(tiles) = 3
  /\ \A i \in DOMAIN tiles : ~tiles[i].remove
  /\ tiles[3].key = "C"
  /\ tiles[3].presenter
  /\ tiles[3].order = 0
  /\ TileOf(tiles, "A").order = 1
  /\ TileOf(tiles, "B").order = 2

\* The tiles after a drag of the tile of d over the tile of h.
Hovered(d, h) == HoverTiles(tiles, TileOf(tiles, d), TileOf(tiles, h))

\* The states a drag reorders tiles in: freedom mode, more than two tiles.
ReorderingDrag == layout = "freedom" /\ Len(tiles) > 2

\* The orders from a to b, whichever is the lower.
Between(a, b) == IF a <= b THEN a..b ELSE b..a

DragOverSwapsFocus ==
  ReorderingDrag =>
    \A d, h \in TileKeys(tiles) :
      d # h =>
        LET after == Hovered(d, h)
        IN  /\ TileOf(after, d).focused = TileOf(tiles, h).focused
            /\ TileOf(after, h).focused = TileOf(tiles, d).focused
            /\ \A k \in TileKeys(tiles) \ {d, h} :
                 TileOf(after, k).focused = TileOf(tiles, k).focused
            /\ PresenterTileCount(after) = PresenterTileCount(tiles)

\* A is being dragged, has taken the place and the focus of B, which was
\* focused by a double tap, and B is no longer focused.
DragOverSwapsFocusWitness ==
  /\ ReorderingDrag
  /\ draggingTileRef = "A"
  /\ TileOf(tiles, "A").focused
  /\ TileOf(tiles, "A").order = 0
  /\ "B" \in TileKeys(tiles)
  /\ ~TileOf(tiles, "B").focused
  /\ PresenterTileCount(tiles) = 1

\* C24: in the two-tile case the stored PiP ratios change only in the step
\* of the final event of a drag, the one that leaves no tile marked as
\* dragged; every other drag event leaves both ratios as they were.
PipStoredOnlyOnRelease ==
  [][<<pipXRatio, pipYRatio>>' # <<pipXRatio, pipYRatio>> =>
       /\ Len(tiles) = 2
       /\ draggingTileRef' = "none"]_vars

\* The local tile was dragged to the top left corner and released: both
\* ratios went from 1 to 0 and no tile is marked as dragged.
PipStoredOnlyOnReleaseWitness ==
  /\ layout = "freedom"
  /\ Len(tiles) = 2
  /\ draggingTileRef = "none"
  /\ pipXRatio = N(0)
  /\ pipYRatio = N(0)

\* C26: the final event of the gesture on the tile marked as dragged leaves
\* no tile marked as dragged, in every state the gesture can end in.
DragEndClearsRef ==
  draggingTileRef \in TileKeys(tiles) =>
    RefAfterDragEvent(draggingTileRef, FALSE) = "none"

\* C28: the PiP ratios change only in a step taken from a state that shows
\* the one-on-one layout (freedom mode, two tiles, none focused) with the
\* local tile in the PiP rectangle, that of order 0.
PipChangesOnlyInOneOnOne ==
  [][<<pipXRatio, pipYRatio>>' # <<pipXRatio, pipYRatio>> =>
       /\ layout = "freedom"
       /\ Len(tiles) = 2
       /\ PresenterTileCount(tiles) = 0
       /\ \E i \in DOMAIN tiles : tiles[i].item.isLocal /\ tiles[i].order = 0]_vars

\* C27: after every operation the stored rectangles are what getTilePositions
\* returns for the current tile count, focused count, viewport, PiP ratios
\* and layout mode.
RectanglesAreCurrent ==
  tilePositions =
    getTilePositions(Len(tiles), PresenterTileCount(tiles), gridBounds.width,
                     gridBounds.height, pipXRatio, pipYRatio, layout)

\* The movements of a wheel or drag event on the grid.
ScrollDeltas == {N(-100), N(60)}

\* The spectator strip of spotlight mode in a wide viewport, where three
\* tiles do not fit, scrolled while the item list and the layout change.
ScrollNext ==
  \/ SetItems(PlainLists)
  \/ SetLayout
  \/ Resize({Ultrawide})
  \/ TimerFire
  \/ onGridGesture(ScrollDeltas)

ScrollSpec == Init /\ [][ScrollNext]_vars

\* C25: in spotlight mode the scroll offset is at most 0 and not below the
\* limit computed from the current rectangles and viewport, min(0, ScrollMin).
ScrollIsClamped ==
  layout = "spotlight" =>
    /\ ~Lt(N(0), scrollPosition)
    /\ ~Lt(scrollPosition, MathMin(N(0), ScrollMin))

\* The registration form with every way its awaited steps can settle.
RegisterNext ==
  \/ EditForm
  \/ onSubmitRegisterForm
  \/ ExecuteSettles
  \/ RegisterSettles
  \/ JoinSettles
  \/ SleepSettles
  \/ RetrySettles

RegisterSpec == RegisterInit /\ [][RegisterNext]_vars

\* The places of calls at which the page navigated.
Navigations ==
  {i \in DOMAIN calls : calls[i].fn \in {"history.push(/)", "history.push(from)"}}

HasMade(fn) == \E i \in DOMAIN calls : calls[i].fn = fn

\* The awaits of submit() that can reject it, and the error each rejects with.
Rejecting == {"execute", "register", "retry"}

RejectionOf(pc) == IF pc = "retry" THEN "joinRoom" ELSE pc

\* Every navigation comes after a call of setClient and goes to
\* location.state.from when that is set, to "/" otherwise.
NavigatedAfterSetClient ==
  \A i \in Navigations :
    /\ \E j \in 1..(i - 1) : calls[j].fn = "setClient"
    /\ calls[i].fn = IF locationFrom THEN "history.push(from)" ELSE "history.push(/)"

\* A submit event taken while the two passwords differ starts nothing: no
\* call is made, register included.
MismatchStartsNothing ==
  submitEvents' # submitEvents /\ ~passwordsMatch =>
    /\ ~registering'
    /\ submitPc' = submitPc
    /\ calls' = calls

\* submit() is rejected only by one of its rejecting awaits, and then the
\* catch handler has run and nothing else.
RejectionHandled ==
  submitPc # "rejected" /\ submitPc' = "rejected" =>
    /\ submitPc \in Rejecting
    /\ ~registering'
    /\ error' = RejectionOf(submitPc)
    /\ calls' = Append(calls, Made("reset", 0))
    /\ ~HasMade("setClient")
    /\ Navigations = {}

IsJoin(i, room) == i \in DOMAIN calls /\ calls[i] = Made("joinRoom", room)

\* The join at place i is the one made after the sleep.
IsRetry(i) ==
  /\ i > 1
  /\ i \in DOMAIN calls
  /\ calls[i].fn = "joinRoom"
  /\ calls[i - 1] = Made("sleep", calls[i].room)

\* If a call was made at place i after room was dealt with, it is the join of
\* the next room, or setClient when room was the last one.
GoesOn(i, room) ==
  i \in DOMAIN calls =>
    calls[i] = IF room < groupCalls THEN Made("joinRoom", room + 1)
               ELSE Made("setClient", 0)

\* C30: the rooms are joined one after the other in the order of the group
\* calls; a first join is followed by the sleep and one retry, or by the
\* logging of its error, or by the next room; a retry is followed by the
\* next room or by the rejection of submit() and never by a log entry, a
\* sleep or a third join; setClient is called only after the last room was
\* dealt with.
RoomMigration ==
  \A i \in DOMAIN calls :
    LET c == calls[i]
        room == c.room
    IN  /\ c.fn = "register" /\ Migrates /\ i < Len(calls) =>
             \/ calls[i + 1] = Made("reset", 0)
             \/ GoesOn(i + 1, 0)
        /\ c.fn = "joinRoom" =>
             /\ Migrates
             /\ \/ room = 1 /\ calls[i - 1].fn = "register"
                \/ IsRetry(i)
                \/ room > 1 /\ IsJoin(i - 1, room - 1)
                \/ room > 1 /\ calls[i - 1] = Made("logger.error", room - 1)
        /\ c.fn = "joinRoom" /\ ~IsRetry(i) /\ i < Len(calls) =>
             \/ calls[i + 1] = Made("sleep", room)
             \/ calls[i + 1] = Made("captureException", room)
             \/ GoesOn(i + 1, room)
        /\ c.fn = "sleep" =>
             /\ IsJoin(i - 1, room) /\ ~IsRetry(i - 1)
             /\ i < Len(calls) => IsJoin(i + 1, room)
        /\ IsRetry(i) /\ i < Len(calls) =>
             \/ calls[i + 1] = Made("reset", 0)
             \/ GoesOn(i + 1, room)
        /\ c.fn = "captureException" =>
             /\ IsJoin(i - 1, room) /\ ~IsRetry(i - 1)
             /\ i < Len(calls) => calls[i + 1] = Made("logger.error", room)
        /\ c.fn = "logger.error" =>
             /\ calls[i - 1] = Made("captureException", room)
             /\ GoesOn(i + 1, room)
        /\ c.fn = "setClient" /\ Migrates /\ groupCalls > 0 =>
             \/ IsJoin(i - 1, groupCalls)
             \/ calls[i - 1] = Made("logger.error", groupCalls)

\* Two rooms were migrated: the first join of room 1 was rate limited and
\* retried after the sleep, the join of room 2 failed and was logged, and
\* setClient was called after both.
RoomMigrationWitness ==
  /\ groupCalls = 2
  /\ submitPc = "resolved"
  /\ \E i \in DOMAIN calls : calls[i] = Made("sleep", 1) /\ IsRetry(i + 1)
  /\ \E i \in DOMAIN calls : calls[i] = Made("logger.error", 2)
  /\ HasMade("setClient")
====
